---------------------------- MODULE Spec2Model ----------------------------
(***************************************************************************)
(* binja-pattern: the pattern scan task (ScanForArrayOfBytesTask and       *)
(* ScanForArrayOfBytesInternal), the embedding API (BinaryPattern_Parse    *)
(* and BinjaPattern_Scan) and the instruction lookup used when the report  *)
(* is formatted (GetInstructionContaningAddress), src/src/PatternScanner.cpp*)
(*                                                                         *)
(* Three specifications share the module; the variables a specification   *)
(* does not use stay at their idle values:                                 *)
(*   Spec        one scan task against a view, with a concurrent cancel,   *)
(*               up to the report, whose formatting calls                  *)
(*               GetInstructionContaningAddress for every block of every   *)
(*               result                                                    *)
(*   SpecScan    BinaryPattern_Parse, BinaryPattern_Free, BinjaPattern_Scan*)
(*   SpecDecode  one call of GetInstructionContaningAddress, on any block  *)
(*               and address                                               *)
(*                                                                         *)
(* mem::pattern, mem::default_scanner, mem::unescape and brick::view_data  *)
(* are not part of src/; they are modelled from sections 3 and 4 of the    *)
(* design document.                                                        *)
(***************************************************************************)
EXTENDS Integers, Sequences, FiniteSets, TLC

VARIABLES
    \* ---- the scan task ----
    pattern_string,  \* the request's pattern text (a sequence of characters)
    mask_string,     \* the request's mask text, <<>> when none was given
    view,            \* the view's segment table, in the order the view lists it
    cancelled,       \* the task's cancellation flag (BackgroundTask::IsCancelled)
    pc,              \* the task's position in the code
    form,            \* which mem::pattern constructor ran: "none", "token", "mask"
    pattern,         \* the compiled pattern's cells
    built,           \* scanner and view_data constructed (lines 95 and 105)
    run,             \* the pass counter i of the loop at line 107
    results,         \* std::vector<uint64_t> results
    sub_results,     \* the last pass's sub_results
    scans,           \* number of scan_all calls made
    reads,           \* the values IsCancelled() returned, in order (history)
    log,             \* the error BinjaLog recorded: "none", "malformed", "mismatch"
    report,          \* the report handed to ShowMarkdownReport
    shown,           \* number of ShowMarkdownReport calls
    blocks,          \* the analysis's basic blocks, as GetBasicBlocksForAddress lists them
    fmt_k,           \* index of the result the loop of line 183 is at
    fmt_blocks,      \* the blocks of that result still to be formatted (line 191)
    \* ---- BinaryPattern_Parse / BinjaPattern_Scan ----
    s_text,          \* the text given to BinaryPattern_Parse
    s_handle,        \* the BinaryPattern handle: "none", "live" or "freed"
    s_cells,         \* BinaryPattern::Pattern
    s_data,          \* the data buffer
    s_base,          \* the address of the data buffer (the data pointer)
    s_limit,         \* the capacity of values
    s_values,        \* the output buffer, index -> offset (Unset when never written)
    s_total,         \* the lambda's captured total
    s_off,           \* the scanner's current offset
    s_calls,         \* offsets the match callback was invoked with, in order (history)
    s_oob,           \* a write to values[k] with k >= limit happened
    s_uaf,           \* the scan read a BinaryPattern that had been freed
    s_ret,           \* BinjaPattern_Scan's return value
    s_pc,
    \* ---- GetInstructionContaningAddress ----
    d_start,         \* block->GetStart()
    d_end,           \* block->GetEnd()
    d_addr,          \* the queried address
    d_arch,          \* position -> the length GetInstructionInfo reports, Fail when it fails
    d_text,          \* whether GetInstructionText succeeds
    d_i,             \* the loop's position i
    d_prev,          \* the position at the start of the last iteration (history)
    d_pc

fmtvars == <<blocks, fmt_k, fmt_blocks>>
taskvars == <<pattern_string, mask_string, view, cancelled, pc, form, pattern, built,
              run, results, sub_results, scans, reads, log, report, shown, fmtvars>>
scanvars == <<s_text, s_handle, s_cells, s_data, s_base, s_limit, s_values, s_total,
              s_off, s_calls, s_oob, s_uaf, s_ret, s_pc>>
decvars == <<d_start, d_end, d_addr, d_arch, d_text, d_i, d_prev, d_pc>>
vars == <<taskvars, scanvars, decvars>>

-----------------------------------------------------------------------------
(* Program constants *)

SCAN_RUNS == 1
MAX_SCAN_RESULTS == 1000

(* Bounds of the model *)

MaxStrLen == 3      \* longest pattern text of a scan task
MaxMaskLen == 2     \* longest mask text of a scan task
MaxSegments == 2    \* most segments in a view's table
MaxTextLen == 5     \* longest text given to BinaryPattern_Parse
MaxBufLen == 4      \* longest buffer given to BinjaPattern_Scan
MaxLimit == 3       \* largest output capacity given to BinjaPattern_Scan
MaxBlockEnd == 3    \* largest basic block end address

-----------------------------------------------------------------------------
(* Characters and bytes *)

Chars == {"A", "?", " ", "\\"}
TextChars == {"A", "?", " "}
MaskChars == {"x", "?"}

StringsUpTo(S, n) == UNION {[1..k -> S] : k \in 0..n}

IsHex(c) == c = "A"
HexVal(c) == 10

CharCode(c) == CASE c = "A" -> 65
                 [] c = "?" -> 63
                 [] c = " " -> 32
                 [] OTHER -> 92

-----------------------------------------------------------------------------
(* mem::pattern, token form (design document 4.1): tokens are separated by *)
(* whitespace; two hex digits are a concrete byte, "?" or "??" a wildcard; *)
(* any other token rejects the whole pattern, which then has no cells.     *)

Wild == [wild |-> TRUE, value |-> 0]
Concrete(b) == [wild |-> FALSE, value |-> b]

RECURSIVE SplitWs(_, _, _)
SplitWs(s, cur, acc) ==
    IF s = <<>>
    THEN IF cur = <<>> THEN acc ELSE Append(acc, cur)
    ELSE IF Head(s) = " "
         THEN SplitWs(Tail(s), <<>>, IF cur = <<>> THEN acc ELSE Append(acc, cur))
         ELSE SplitWs(Tail(s), Append(cur, Head(s)), acc)

TokenIsWild(t) == t = <<"?">> \/ t = <<"?", "?">>
TokenIsByte(t) == Len(t) = 2 /\ IsHex(t[1]) /\ IsHex(t[2])
TokenCell(t) == IF TokenIsWild(t) THEN Wild
                ELSE Concrete(16 * HexVal(t[1]) + HexVal(t[2]))

CompileTokens(s) ==
    LET toks == SplitWs(s, <<>>, <<>>)
    IN  IF \E k \in 1..Len(toks) : ~TokenIsWild(toks[k]) /\ ~TokenIsByte(toks[k])
        THEN <<>>
        ELSE [k \in 1..Len(toks) |-> TokenCell(toks[k])]

(* mem::pattern, byte+mask form (4.1): one cell per mask character, a      *)
(* wildcard where the mask has '?', the byte otherwise.                    *)
CompileMask(bytes, mask) ==
    [k \in 1..Len(mask) |-> IF mask[k] = "?" THEN Wild ELSE Concrete(bytes[k])]

(* mem::pattern::operator bool: a pattern without cells is empty/malformed *)
PatternOk(cells) == Len(cells) > 0

(* mem::unescape: a backslash and the character after it are one byte,     *)
(* every other character is one byte.                                      *)
RECURSIVE Unescape(_)
Unescape(s) ==
    IF s = <<>> THEN <<>>
    ELSE IF Head(s) = "\\" /\ Len(s) >= 2
         THEN <<CharCode(s[2])>> \o Unescape(SubSeq(s, 3, Len(s)))
         ELSE <<CharCode(Head(s))>> \o Unescape(Tail(s))

-----------------------------------------------------------------------------
(* The matcher (4.2): the pattern matches at offset o of buf when every    *)
(* concrete cell equals the byte under it.                                 *)

MatchAt(buf, cells, o) ==
    \A k \in 1..Len(cells) : cells[k].wild \/ buf[o + k] = cells[k].value

(* the scanner leaving out the last offset *)
Candidates_Short(buf, cells) ==
    IF Len(cells) = 0 \/ Len(cells) > Len(buf) THEN 0 ELSE Len(buf) - Len(cells)

(* number of offsets the scanner visits: none for a pattern without cells  *)
(* or longer than the buffer                                               *)
Candidates(buf, cells) ==
    IF Len(cells) = 0 \/ Len(cells) > Len(buf) THEN 0 ELSE Len(buf) - Len(cells) + 1

(* all matches of one buffer, ascending, as the scanner reports them to a  *)
(* callback that never asks to stop                                        *)
ScanBuffer(buf, cells) ==
    LET n == Candidates(buf, cells)
        Hit(o) == MatchAt(buf, cells, o)
    IN  SelectSeq([k \in 1..n |-> k - 1], Hit)

(* A segment is [start, length, unit]: its bytes repeat unit.              *)
SegData(seg) == [k \in 1..seg.length |-> seg.unit[((k - 1) % Len(seg.unit)) + 1]]

(* the segments of a table in ascending start-address order, segments of   *)
(* equal start in table order (4.3: stable, deterministic iteration)       *)
RECURSIVE InsertByStart(_, _)
InsertByStart(seg, sorted) ==
    IF sorted = <<>> THEN <<seg>>
    ELSE IF seg.start < Head(sorted).start THEN <<seg>> \o sorted
    ELSE <<Head(sorted)>> \o InsertByStart(seg, Tail(sorted))

RECURSIVE ByStart(_)
ByStart(segs) ==
    IF segs = <<>> THEN <<>>
    ELSE InsertByStart(segs[Len(segs)], ByStart(SubSeq(segs, 1, Len(segs) - 1)))

(* the matches of the segments in the order given, each translated to      *)
(* segment start + offset and appended                                     *)
RECURSIVE ScanSegments(_, _)
ScanSegments(segs, cells) ==
    IF segs = <<>> THEN <<>>
    ELSE LET seg == Head(segs)
             hits == ScanBuffer(SegData(seg), cells)
         IN  [k \in 1..Len(hits) |-> seg.start + hits[k]] \o ScanSegments(Tail(segs), cells)

(* brick::view_data::scan_all (4.3): every segment in ascending            *)
(* start-address order                                                     *)
scan_all(segs, cells) == ScanSegments(ByStart(segs), cells)

-----------------------------------------------------------------------------
(* Idle values of the other machines *)


ScanIdle ==
    /\ s_text = <<>>
    /\ s_handle = "none"
    /\ s_uaf = FALSE
    /\ s_cells = <<>>
    /\ s_data = <<>>
    /\ s_base = 0
    /\ s_limit = 0
    /\ s_values = <<>>
    /\ s_total = 0
    /\ s_off = 0
    /\ s_calls = <<>>
    /\ s_oob = FALSE
    /\ s_ret = 0
    /\ s_pc = "idle"

DecodeIdle ==
    /\ d_start = 0
    /\ d_end = 0
    /\ d_addr = 0
    /\ d_arch = <<>>
    /\ d_text = FALSE
    /\ d_i = 0
    /\ d_prev = -1
    /\ d_pc = "idle"

-----------------------------------------------------------------------------
(* GetInstructionContaningAddress *)

Fail == -1                       \* GetInstructionInfo returned false
InstructionLengths == {Fail, 0, 1, 2}

DecodeInit ==
    /\ d_end \in 0..MaxBlockEnd
    /\ d_start \in 0..d_end
    /\ d_addr \in 0..MaxBlockEnd
    /\ d_arch \in [0..(MaxBlockEnd - 1) -> InstructionLengths]
    /\ d_text \in BOOLEAN
    /\ d_i = d_start
    /\ d_prev = -1
    /\ d_pc = "loop"

(* one iteration of the loop of lines 44-79, or its end (line 81) *)
DecodeStep ==
    /\ d_pc = "loop"
    /\ d_prev' = d_i
    /\ IF d_i < d_end
       THEN IF d_arch[d_i] # Fail
            THEN IF d_addr >= d_i /\ d_addr < d_i + d_arch[d_i]
                 THEN /\ d_pc' = IF d_text THEN "ret_text" ELSE "ret_empty"
                      /\ UNCHANGED d_i
                 ELSE /\ d_i' = d_i + d_arch[d_i]
                      /\ UNCHANGED d_pc
            ELSE /\ d_pc' = "ret_empty"
                 /\ UNCHANGED d_i
       ELSE /\ d_pc' = "ret_empty"
            /\ UNCHANGED d_i
    /\ UNCHANGED <<taskvars, scanvars, d_start, d_end, d_addr, d_arch, d_text>>

-----------------------------------------------------------------------------
(* The scan task *)

NoReport == [warning |-> FALSE, count |-> 0, addrs |-> <<>>, lines |-> <<>>]

UnitAA == <<170>>          \* AA AA AA ...
UnitMixed == <<170, 65>>   \* AA 41 AA 41 ...
Seg(s, n, u) == [start |-> s, length |-> n, unit |-> u]

SegCatalogue ==
    { Seg(0, 1, UnitAA), Seg(0, 2, UnitMixed), Seg(1, 2, UnitAA),
      Seg(0, MAX_SCAN_RESULTS - 1, UnitAA), Seg(1, MAX_SCAN_RESULTS, UnitAA),
      Seg(2 * MAX_SCAN_RESULTS, 1, UnitAA),
      Seg(2 * MAX_SCAN_RESULTS, MAX_SCAN_RESULTS, UnitMixed) }

Views == StringsUpTo(SegCatalogue, MaxSegments)
SmallViews == { <<>>, <<Seg(0, 2, UnitMixed)>>, <<Seg(1, 2, UnitAA), Seg(0, 2, UnitMixed)>> }

Requests == StringsUpTo(Chars, MaxStrLen) \X StringsUpTo(MaskChars, MaxMaskLen)
FewRequests == { << <<"A", "A">>, <<>> >>, << <<"?">>, <<>> >>, << <<"A">>, <<"x">> >> }

TaskIdle ==
    /\ cancelled = FALSE
    /\ form = "none"
    /\ pattern = <<>>
    /\ built = FALSE
    /\ run = 0
    /\ results = <<>>
    /\ sub_results = <<>>
    /\ scans = 0
    /\ reads = <<>>
    /\ log = "none"
    /\ report = NoReport
    /\ shown = 0
    /\ fmt_k = 0
    /\ fmt_blocks = <<>>

TaskParked ==
    /\ pattern_string = <<>>
    /\ mask_string = <<>>
    /\ view = <<>>
    /\ pc = "idle"
    /\ blocks = <<>>
    /\ TaskIdle

(* The analysis of the view: its basic blocks (every block holds at least  *)
(* one address), what GetInstructionInfo reports at each position and      *)
(* whether GetInstructionText succeeds.                                    *)
Block(a, b) == [start |-> a, end |-> b]
Blocks == { Block(a, b) : a \in 0..(MaxBlockEnd - 1), b \in 1..MaxBlockEnd } \cap
          { Block(a, a + n) : a \in 0..(MaxBlockEnd - 1), n \in 1..MaxBlockEnd }
BlockTables == {<<>>} \cup { <<b>> : b \in Blocks } \cup (Blocks \X Blocks)
Architectures == [0..(MaxBlockEnd - 1) -> InstructionLengths]
NoDecode == [p \in 0..(MaxBlockEnd - 1) |-> Fail]

Analyses == BlockTables \X Architectures \X BOOLEAN
NoAnalysis == { <<(<<>>), NoDecode, FALSE>> }

AnalysedRequests == { << <<"?">>, <<>> >> }
AnalysedViews == { <<Seg(0, 2, UnitMixed)>>, <<Seg(1, 2, UnitAA), Seg(0, 2, UnitMixed)>> }

TaskInputs ==
    (Requests \X SmallViews \X NoAnalysis)
        \cup (FewRequests \X Views \X NoAnalysis)
        \cup (AnalysedRequests \X AnalysedViews \X Analyses)

TaskInit ==
    /\ \E inp \in TaskInputs :
          /\ pattern_string = inp[1][1]
          /\ mask_string = inp[1][2]
          /\ view = inp[2]
          /\ blocks = inp[3][1]
          /\ d_arch = inp[3][2]
          /\ d_text = inp[3][3]
    /\ pc = "task"
    /\ TaskIdle
    /\ d_start = 0
    /\ d_end = 0
    /\ d_addr = 0
    /\ d_i = 0
    /\ d_prev = -1
    /\ d_pc = "idle"

(* BackgroundTask::Cancel, from the UI thread at any moment; the flag is   *)
(* never cleared.                                                          *)
Cancel ==
    /\ ~cancelled
    /\ cancelled' = TRUE
    /\ UNCHANGED <<scanvars, decvars, fmtvars, pattern_string, mask_string, view, pc, form, pattern, built, run,
                   results, sub_results, scans, reads, log, report, shown>>

(* ScanForArrayOfBytesTask, lines 207-212: no mask, the token form *)
TaskTokenForm ==
    /\ pc = "task"
    /\ mask_string = <<>>
    /\ pattern' = CompileTokens(pattern_string)
    /\ form' = "token"
    /\ pc' = "internal"
    /\ UNCHANGED <<scanvars, decvars, fmtvars, pattern_string, mask_string, view, cancelled, built, run, results,
                   sub_results, scans, reads, log, report, shown>>

(* LengthMismatch with the raw text's length in place of the unescaped     *)
(* bytes' count                                                            *)
LengthMismatch_Raw(ps, ms) == Len(ps) # Len(ms)

(* the comparison of line 217 *)
LengthMismatch(ps, ms) == Len(Unescape(ps)) # Len(ms)

(* ScanForArrayOfBytesTask, lines 213-227: a mask was given *)
TaskMaskForm ==
    /\ pc = "task"
    /\ mask_string # <<>>
    /\ IF LengthMismatch(pattern_string, mask_string)
       THEN /\ log' = "mismatch"
            /\ pc' = "ret_mismatch"
            /\ UNCHANGED <<pattern, form>>
       ELSE /\ pattern' = CompileMask(Unescape(pattern_string), mask_string)
            /\ form' = "mask"
            /\ pc' = "internal"
            /\ UNCHANGED log
    /\ UNCHANGED <<scanvars, decvars, fmtvars, pattern_string, mask_string, view, cancelled, built, run, results,
                   sub_results, scans, reads, report, shown>>

(* InternalEnter without the test of line 88 *)
InternalEnter_NoCheck ==
    /\ pc = "internal"
    /\ built' = TRUE
    /\ pc' = "loop"
    /\ UNCHANGED <<scanvars, decvars, fmtvars, pattern_string, mask_string, view, cancelled,
                   form, pattern, run, results, sub_results, scans, reads, log, report,
                   shown>>

(* ScanForArrayOfBytesInternal, lines 88-105: the pattern check, then the  *)
(* scanner and the view data                                               *)
InternalEnter ==
    /\ pc = "internal"
    /\ IF ~PatternOk(pattern)
       THEN /\ log' = "malformed"
            /\ pc' = "ret_malformed"
            /\ UNCHANGED built
       ELSE /\ built' = TRUE
            /\ pc' = "loop"
            /\ UNCHANGED log
    /\ UNCHANGED <<scanvars, decvars, fmtvars, pattern_string, mask_string, view, cancelled, form, pattern, run,
                   results, sub_results, scans, reads, report, shown>>

(* lines 107-114: the loop condition, results.clear() and the checkpoint   *)
(* before the pass                                                         *)
LoopHead ==
    /\ pc = "loop"
    /\ IF run < SCAN_RUNS
       THEN /\ results' = <<>>
            /\ reads' = Append(reads, cancelled)
            /\ pc' = IF cancelled THEN "after_loop" ELSE "scan"
       ELSE /\ pc' = "after_loop"
            /\ UNCHANGED <<results, reads>>
    /\ UNCHANGED <<scanvars, decvars, fmtvars, pattern_string, mask_string, view, cancelled, form, pattern, built,
                   run, sub_results, scans, log, report, shown>>

(* lines 116-130: one pass over the view *)
ScanPass ==
    /\ pc = "scan"
    /\ sub_results' = scan_all(view, pattern)
    /\ scans' = scans + 1
    /\ pc' = "check"
    /\ UNCHANGED <<scanvars, decvars, fmtvars, pattern_string, mask_string, view, cancelled, form, pattern, built,
                   run, results, reads, log, report, shown>>

(* lines 132-148: the checkpoint after the pass, then the pass's matches   *)
(* are added to results                                                    *)
Collect ==
    /\ pc = "check"
    /\ reads' = Append(reads, cancelled)
    /\ IF cancelled
       THEN /\ pc' = "after_loop"
            /\ UNCHANGED <<results, run>>
       ELSE IF sub_results # <<>> /\ Len(results) > MAX_SCAN_RESULTS
            THEN /\ pc' = "after_loop"
                 /\ UNCHANGED <<results, run>>
            ELSE /\ results' = results \o sub_results
                 /\ run' = run + 1
                 /\ pc' = "loop"
    /\ UNCHANGED <<scanvars, decvars, fmtvars, pattern_string, mask_string, view, cancelled, form, pattern, built,
                   sub_results, scans, log, report, shown>>

(* FinalCheck reading the flag without acting on it *)
FinalCheck_NoReturn ==
    /\ pc = "after_loop"
    /\ reads' = Append(reads, cancelled)
    /\ pc' = "format"
    /\ UNCHANGED <<scanvars, decvars, fmtvars, pattern_string, mask_string, view, cancelled,
                   form, pattern, built, run, results, sub_results, scans, log, report,
                   shown>>

(* lines 155-158: the checkpoint after the loop *)
FinalCheck ==
    /\ pc = "after_loop"
    /\ reads' = Append(reads, cancelled)
    /\ pc' = IF cancelled THEN "ret_cancelled" ELSE "format"
    /\ UNCHANGED <<scanvars, decvars, fmtvars, pattern_string, mask_string, view, cancelled, form, pattern, built,
                   run, results, sub_results, scans, log, report, shown>>

(* Resize without the resize *)
Resize_Keep(res) == res

(* lines 162-167: the truncation test and results.resize *)
Truncated(res) == Len(res) >= MAX_SCAN_RESULTS

Resize(res) == IF Truncated(res) THEN SubSeq(res, 1, MAX_SCAN_RESULTS) ELSE res

(* line 169: std::sort *)
Sort(res) == SortSeq(res, LAMBDA a, b : a < b)

(* view->GetBasicBlocksForAddress, line 187 *)
GetBasicBlocksForAddress(addr) ==
    LET Holds(b) == b.start <= addr /\ addr < b.end
    IN  SelectSeq(blocks, Holds)

(* the first index from k on of a result that lies in some basic block,    *)
(* Len(res) + 1 when there is none                                         *)
NextWithBlocks(res, k) ==
    LET with == { j \in k..Len(res) : GetBasicBlocksForAddress(res[j]) # <<>> }
    IN  IF with = {} THEN Len(res) + 1
        ELSE CHOOSE j \in with : \A i \in with : j <= i

(* lines 160-181: truncation, sort and the head of the report *)
FormatBegin ==
    /\ pc = "format"
    /\ results' = Sort(Resize(results))
    /\ report' = [warning |-> Truncated(results),
                  count |-> Len(results'),
                  addrs |-> results',
                  lines |-> <<>>]
    /\ fmt_k' = 1
    /\ pc' = "result_loop"
    /\ UNCHANGED <<scanvars, decvars, blocks, fmt_blocks, pattern_string, mask_string,
                   view, cancelled, form, pattern, built, run, sub_results, scans,
                   reads, log, shown>>

(* lines 183-189: the loop over the results, up to the next result that    *)
(* lies in a basic block (a result in no block only adds its own line)     *)
FormatResult ==
    /\ pc = "result_loop"
    /\ LET k == NextWithBlocks(results, fmt_k)
       IN  /\ fmt_k' = k
           /\ IF k > Len(results)
              THEN /\ pc' = "show"
                   /\ UNCHANGED fmt_blocks
              ELSE /\ fmt_blocks' = GetBasicBlocksForAddress(results[k])
                   /\ pc' = "block_loop"
    /\ UNCHANGED <<scanvars, decvars, blocks, pattern_string, mask_string, view,
                   cancelled, form, pattern, built, run, results, sub_results, scans,
                   reads, log, report, shown>>

(* lines 191-195: the loop over the result's blocks and the call of        *)
(* GetInstructionContaningAddress (lines 38-44)                            *)
FormatBlock ==
    /\ pc = "block_loop"
    /\ IF fmt_blocks = <<>>
       THEN /\ fmt_k' = fmt_k + 1
            /\ pc' = "result_loop"
            /\ UNCHANGED <<d_start, d_end, d_addr, d_i, d_prev, d_pc>>
       ELSE /\ d_start' = Head(fmt_blocks).start
            /\ d_end' = Head(fmt_blocks).end
            /\ d_addr' = results[fmt_k]
            /\ d_i' = Head(fmt_blocks).start
            /\ d_prev' = -1
            /\ d_pc' = "loop"
            /\ pc' = "decoding"
            /\ UNCHANGED fmt_k
    /\ UNCHANGED <<scanvars, d_arch, d_text, blocks, fmt_blocks, pattern_string,
                   mask_string, view, cancelled, form, pattern, built, run, results,
                   sub_results, scans, reads, log, report, shown>>

(* lines 195-197: GetInstructionContaningAddress returned, the block's     *)
(* line is added                                                           *)
FormatReturn ==
    /\ pc = "decoding"
    /\ d_pc \in {"ret_text", "ret_empty"}
    /\ report' = [report EXCEPT !.lines =
                      Append(@, [addr |-> d_addr, text |-> d_pc = "ret_text"])]
    /\ fmt_blocks' = Tail(fmt_blocks)
    /\ d_pc' = "idle"
    /\ pc' = "block_loop"
    /\ UNCHANGED <<scanvars, d_start, d_end, d_addr, d_arch, d_text, d_i, d_prev,
                   blocks, fmt_k, pattern_string, mask_string, view, cancelled, form,
                   pattern, built, run, results, sub_results, scans, reads, log, shown>>

(* line 202: ShowMarkdownReport *)
Show ==
    /\ pc = "show"
    /\ shown' = shown + 1
    /\ pc' = "done"
    /\ UNCHANGED <<scanvars, decvars, fmtvars, pattern_string, mask_string, view,
                   cancelled, form, pattern, built, run, results, sub_results, scans,
                   reads, log, report>>

(* the steps of the task's own thread *)
TaskStep ==
    \/ TaskTokenForm
    \/ TaskMaskForm
    \/ InternalEnter
    \/ LoopHead
    \/ ScanPass
    \/ Collect
    \/ FinalCheck
    \/ FormatBegin
    \/ FormatResult
    \/ FormatBlock
    \/ DecodeStep
    \/ FormatReturn
    \/ Show

TaskNext == Cancel \/ TaskStep

Init == TaskInit /\ ScanIdle
Spec == Init /\ [][TaskNext]_vars

-----------------------------------------------------------------------------
(* BinaryPattern_Parse and BinjaPattern_Scan *)

Buffers == StringsUpTo({170, 65}, MaxBufLen)
BufferAddresses == {64}

(* values[k] before anything was written to it *)
Unset == [set |-> FALSE, value |-> 0]
Stored(v) == [set |-> TRUE, value |-> v]

ScanInit ==
    /\ s_text \in StringsUpTo(TextChars, MaxTextLen)
    /\ s_data \in Buffers
    /\ s_base \in BufferAddresses
    /\ s_limit \in 0..MaxLimit
    /\ s_handle = "none"
    /\ s_cells = <<>>
    /\ s_values = [k \in 0..(s_limit - 1) |-> Unset]
    /\ s_total = 0
    /\ s_off = 0
    /\ s_calls = <<>>
    /\ s_oob = FALSE
    /\ s_uaf = FALSE
    /\ s_ret = 0
    /\ s_pc = "parse"

(* BinaryPattern_Parse, lines 255-263 *)
Parse ==
    /\ s_pc = "parse"
    /\ s_cells' = CompileTokens(s_text)
    /\ s_handle' = "live"
    /\ s_pc' = "call"
    /\ UNCHANGED <<taskvars, decvars, s_text, s_data, s_base, s_limit, s_values,
                   s_total, s_off, s_calls, s_oob, s_uaf, s_ret>>

(* BinaryPattern_Free, lines 265-268: the caller frees the handle, before  *)
(* or after its scan                                                       *)
Free ==
    /\ s_pc \in {"call", "returned"}
    /\ s_handle = "live"
    /\ s_handle' = "freed"
    /\ UNCHANGED <<taskvars, decvars, s_text, s_cells, s_data, s_base, s_limit,
                   s_values, s_total, s_off, s_calls, s_oob, s_uaf, s_ret, s_pc>>

(* what a read of a freed BinaryPattern may find in place of the pattern:  *)
(* any sequence of cells, the cells the object held before the delete      *)
(* (block left untouched, or handed to a later parse of the same text)     *)
(* among them. The buffers hold only the bytes AA and 41, so a cell of any *)
(* other byte matches nowhere, as a too long sequence does.                *)
FreedCells == StringsUpTo({Wild, Concrete(170), Concrete(65)}, MaxBufLen)

(* per buffer, the match lists a scan with freed cells can report *)
FreedHits == [d \in Buffers |-> { ScanBuffer(d, g) : g \in FreedCells }]

(* BinjaPattern_Scan, lines 273-278 on a live handle: the limit test,      *)
(* total, and the call of the scanner                                      *)
ScanCall ==
    /\ s_pc = "call"
    /\ s_limit = 0 \/ s_handle = "live"
    /\ IF s_limit = 0
       THEN /\ s_ret' = 0
            /\ s_pc' = "returned"
            /\ UNCHANGED <<s_total, s_off>>
       ELSE /\ s_total' = 0
            /\ s_off' = 0
            /\ s_pc' = "scanning"
            /\ UNCHANGED s_ret
    /\ UNCHANGED <<taskvars, decvars, s_text, s_handle, s_cells, s_data, s_base,
                   s_limit, s_values, s_calls, s_oob, s_uaf>>

(* the lambda of lines 278-281: the value stored for a match at pointer p, *)
(* and its answer to the scanner once total was incremented                *)
StoredValue(p, data) == p - data

(* the lambda stopping one match late *)
CallbackStop_Late(total, limit) == total > limit

CallbackStop(total, limit) == total = limit

(* BinjaPattern_Scan, lines 273-281 on a freed handle with limit > 0: line *)
(* 278 reads *pattern after BinaryPattern_Free deleted it. The call either *)
(* faults, or the scanner runs with whatever cells the freed memory holds  *)
(* and the lambda stores its matches up to the limit.                      *)
ScanFreed ==
    /\ s_pc = "call"
    /\ s_limit > 0
    /\ s_handle = "freed"
    /\ s_uaf' = TRUE
    /\ \/ /\ s_pc' = "faulted"
          /\ UNCHANGED <<s_values, s_total, s_calls>>
       \/ \E hits \in FreedHits[s_data] :
             LET n == IF Len(hits) < s_limit THEN Len(hits) ELSE s_limit
             IN  /\ s_calls' = SubSeq(hits, 1, n)
                 /\ s_values' = [k \in 0..(s_limit - 1) |->
                                    IF k < n
                                    THEN Stored(StoredValue(s_base + hits[k + 1], s_base))
                                    ELSE Unset]
                 /\ s_total' = n
                 /\ s_pc' = "finish"
    /\ UNCHANGED <<taskvars, decvars, s_text, s_handle, s_cells, s_data, s_base,
                   s_limit, s_off, s_oob, s_ret>>

(* One step of the scanner (4.2) over [data, data + length): the next      *)
(* offset is tested and a match is handed to the lambda as the pointer     *)
(* data + offset; the scanner ends when the lambda answers true or no      *)
(* offset is left.                                                         *)
ScannerStep ==
    /\ s_pc = "scanning"
    /\ IF s_off >= Candidates(s_data, s_cells)
       THEN /\ s_pc' = "finish"
            /\ UNCHANGED <<s_values, s_total, s_off, s_calls, s_oob>>
       ELSE IF MatchAt(s_data, s_cells, s_off)
            THEN /\ s_calls' = Append(s_calls, s_off)
                 /\ IF s_total < s_limit
                    THEN /\ s_values' = [s_values EXCEPT ![s_total] =
                                             Stored(StoredValue(s_base + s_off, s_base))]
                         /\ UNCHANGED s_oob
                    ELSE /\ s_oob' = TRUE
                         /\ UNCHANGED s_values
                 /\ s_total' = s_total + 1
                 /\ IF CallbackStop(s_total', s_limit)
                    THEN s_pc' = "finish" /\ UNCHANGED s_off
                    ELSE s_pc' = "scanning" /\ s_off' = s_off + 1
            ELSE /\ s_off' = s_off + 1
                 /\ UNCHANGED <<s_values, s_total, s_calls, s_oob, s_pc>>
    /\ UNCHANGED <<taskvars, decvars, s_text, s_handle, s_cells, s_data, s_base, s_limit,
                   s_uaf, s_ret>>

(* BinjaPattern_Scan, line 283 *)
ScanReturn ==
    /\ s_pc = "finish"
    /\ s_ret' = s_total
    /\ s_pc' = "returned"
    /\ UNCHANGED <<taskvars, decvars, s_text, s_handle, s_cells, s_data, s_base, s_limit,
                   s_values, s_total, s_off, s_calls, s_oob, s_uaf>>

ScanNext == Parse \/ Free \/ ScanCall \/ ScanFreed \/ ScannerStep \/ ScanReturn

InitScan == TaskParked /\ ScanInit /\ DecodeIdle
SpecScan == InitScan /\ [][ScanNext]_vars

-----------------------------------------------------------------------------
(* GetInstructionContaningAddress, called on its own *)

InitDecode == TaskParked /\ ScanIdle /\ DecodeInit
SpecDecode == InitDecode /\ [][DecodeStep]_vars

-----------------------------------------------------------------------------
(* Properties of the scan task, checked under Spec *)

Terminal == pc \in {"done", "ret_cancelled", "ret_malformed", "ret_mismatch"}

Ascending(seq) == \A k \in 1..(Len(seq) - 1) : seq[k] < seq[k + 1]

Prefix(seq, n) == SubSeq(seq, 1, IF Len(seq) < n THEN Len(seq) ELSE n)

(* the distinct elements of an ascending sequence *)
Distinct(seq) ==
    LET Keep(k) == k = 1 \/ seq[k] # seq[k - 1]
        idx == SelectSeq([k \in 1..Len(seq) |-> k], Keep)
    IN  [j \in 1..Len(idx) |-> seq[idx[j]]]

(* C1: when a scan completes and its pass collected more than              *)
(* MAX_SCAN_RESULTS addresses, the report lists the MAX_SCAN_RESULTS       *)
(* smallest of them: the first MAX_SCAN_RESULTS elements of the sorted     *)
(* matches (read as a sequence, or as a set without repetitions).          *)
C1_SmallestKept ==
    (pc = "done" /\ Len(sub_results) > MAX_SCAN_RESULTS) =>
        LET all == SortSeq(sub_results, LAMBDA a, b : a < b)
        IN  \/ report.addrs = Prefix(all, MAX_SCAN_RESULTS)
            \/ report.addrs = Prefix(Distinct(all), MAX_SCAN_RESULTS)

(* C2: the addresses of a shown report are strictly ascending, each        *)
(* address once, whatever the segment scan returned.                       *)
C2_StrictlyAscending ==
    pc = "done" => Ascending(report.addrs)

(* C3: a shown report never lists more than MAX_SCAN_RESULTS addresses;    *)
(* with more than MAX_SCAN_RESULTS collected it lists exactly              *)
(* MAX_SCAN_RESULTS and carries the warning, with fewer it lists all of    *)
(* them and carries no warning.                                            *)
C3_Truncation ==
    pc = "done" =>
        LET n == Len(sub_results)
        IN  /\ Len(report.addrs) <= MAX_SCAN_RESULTS
            /\ report.count = Len(report.addrs)
            /\ n > MAX_SCAN_RESULTS =>
                   Len(report.addrs) = MAX_SCAN_RESULTS /\ report.warning
            /\ n < MAX_SCAN_RESULTS =>
                   Len(report.addrs) = n /\ ~report.warning

C3_Witness ==
    /\ pc = "done"
    /\ Len(sub_results) > MAX_SCAN_RESULTS
    /\ report.warning
    /\ Len(report.addrs) = MAX_SCAN_RESULTS

(* C4: when the first checkpoint reads the flag as set, no scan_all is     *)
(* run, nothing is collected, no warning is produced and no report shown.  *)
C4_CancelledBeforeFirstPass ==
    (reads # <<>> /\ reads[1]) =>
        /\ scans = 0
        /\ results = <<>>
        /\ sub_results = <<>>
        /\ ~report.warning
        /\ report = NoReport
        /\ shown = 0
        /\ pc \in {"after_loop", "ret_cancelled"}

C4_Witness ==
    pc = "ret_cancelled" /\ reads = <<TRUE, TRUE>>

(* how a task ends, in terms of what its checkpoints read *)
C5_Outcome ==
    /\ shown <= 1
    /\ pc = "done" => shown = 1 /\ reads = <<FALSE, FALSE, FALSE>>
    /\ pc = "ret_cancelled" =>
           shown = 0 /\ reads # <<>> /\ reads[Len(reads)]
    /\ (Terminal /\ built) => pc \in {"done", "ret_cancelled"}
    /\ Terminal =>
           (shown = 1 <=> (PatternOk(pattern) /\ \A k \in 1..Len(reads) : ~reads[k]))
    /\ ~Terminal => shown = 0

(* an ended task stays as it ended *)
C5_Stable ==
    Terminal => (pc' = pc /\ shown' = shown /\ report' = report /\ reads' = reads)

(* a task that passed every checkpoint with the flag read as not set has   *)
(* shown its report or its thread still has a step that changes its state  *)
C5_Ends ==
    (PatternOk(pattern) /\ reads = <<FALSE, FALSE, FALSE>>) =>
        (shown = 1 \/ ENABLED <<TaskStep>>_vars)

(* C5: the cancel flag acts only at the checkpoints. A task with a valid   *)
(* pattern ends Completed (report shown once) or Cancelled (never shown);  *)
(* the report is shown exactly when the pattern is valid and every         *)
(* checkpoint read the flag as not set; an ended task stays as it ended.   *)
C5_CooperativeCancel == [](C5_Outcome /\ C5_Ends) /\ [][C5_Stable]_vars

(* C8: a task whose compiled pattern is empty or malformed ends at once:   *)
(* the error is logged, no scanner or view data is built, nothing is       *)
(* scanned or collected and no report is shown, whatever the flag is.      *)
C8_MalformedPattern ==
    (pc \notin {"task", "internal"} /\ form # "none" /\ ~PatternOk(pattern)) =>
        /\ pc = "ret_malformed"
        /\ log = "malformed"
        /\ ~built
        /\ reads = <<>>
        /\ scans = 0
        /\ results = <<>>
        /\ sub_results = <<>>
        /\ report = NoReport
        /\ shown = 0

C8_Witness ==
    pc = "ret_malformed" /\ cancelled /\ log = "malformed" /\ pattern_string # <<>>

(* C9: with a mask whose length differs from the number of unescaped       *)
(* pattern bytes the task reports the mismatch and returns: nothing is     *)
(* compiled, scanned or shown. With equal lengths the byte+mask pattern is *)
(* compiled and scanned; with no mask the token form is used.              *)
C9_MaskLength ==
    pc # "task" =>
        LET nbytes == Len(Unescape(pattern_string))
            scanned == (reads # <<>> /\ ~reads[1] /\ pc # "scan") => scans = 1
        IN  /\ (mask_string # <<>> /\ nbytes # Len(mask_string)) =>
                   /\ pc = "ret_mismatch"
                   /\ log = "mismatch"
                   /\ form = "none"
                   /\ pattern = <<>>
                   /\ ~built
                   /\ scans = 0
                   /\ shown = 0
            /\ (mask_string # <<>> /\ nbytes = Len(mask_string)) =>
                   /\ form = "mask"
                   /\ Len(pattern) = Len(mask_string)
                   /\ \A k \in 1..Len(pattern) :
                          pattern[k].wild <=> mask_string[k] = "?"
                   /\ log = "none"
                   /\ pc # "ret_mismatch"
                   /\ scanned
            /\ mask_string = <<>> =>
                   /\ form = "token"
                   /\ log # "mismatch"
                   /\ pc # "ret_mismatch"
                   /\ scanned

C9_Witness ==
    /\ pc = "ret_mismatch"
    /\ log = "mismatch"
    /\ Len(pattern_string) = Len(mask_string)

-----------------------------------------------------------------------------
(* Properties of BinjaPattern_Scan, checked under SpecScan *)

(* the offsets of s_data at which s_cells matches, stated from the         *)
(* contract of 4.2                                                         *)
MatchOffsets ==
    LET n == Len(s_data)
        m == Len(s_cells)
    IN  { o \in 0..(n - m) :
            /\ m > 0
            /\ \A i \in 1..m : s_cells[i].wild \/ s_data[o + i] = s_cells[i].value }

MatchSeq ==
    LET In(o) == o \in MatchOffsets
    IN  SelectSeq([k \in 1..(Len(s_data) + 1) |-> k - 1], In)

Smaller(a, b) == IF a < b THEN a ELSE b

(* C6: when the callback never has to stop the scan, it is invoked for     *)
(* exactly the offsets in [0, n-m] where every concrete cell equals the    *)
(* byte under it, each once, overlapping ones included; a pattern longer   *)
(* than the buffer or without cells gives none, an all-wildcard pattern of *)
(* length k <= n gives n-k+1.                                              *)
C6_MatcherContract ==
    (s_pc = "returned" /\ ~s_uaf /\ Cardinality(MatchOffsets) <= s_limit) =>
        LET n == Len(s_data)
            m == Len(s_cells)
        IN  /\ {s_calls[k] : k \in 1..Len(s_calls)} = MatchOffsets
            /\ Len(s_calls) = Cardinality(MatchOffsets)
            /\ (m = 0 \/ m > n) => s_calls = <<>>
            /\ (m >= 1 /\ m <= n /\ \A i \in 1..m : s_cells[i].wild) =>
                   Len(s_calls) = n - m + 1

C6_Witness ==
    /\ s_pc = "returned"
    /\ ~s_uaf
    /\ s_cells = <<Concrete(170), Concrete(170)>>
    /\ s_data = <<170, 170, 170>>
    /\ s_calls = <<0, 1>>

(* C7: BinjaPattern_Scan with capacity L over M matching offsets returns   *)
(* min(L, M), writes exactly values[0 .. min(L,M)-1], never an index >= L, *)
(* each entry the match position minus the data pointer, and stops at the  *)
(* L-th match; with L = 0 it returns 0 and neither scans nor writes.       *)
C7_BoundedOutput ==
    /\ ~s_oob
    /\ (s_pc = "returned" /\ ~s_uaf) =>
           LET r == Smaller(s_limit, Cardinality(MatchOffsets))
           IN  /\ s_ret = r
               /\ \A k \in 0..(s_limit - 1) :
                      s_values[k] = IF k < r THEN Stored(MatchSeq[k + 1]) ELSE Unset
               /\ Len(s_calls) = r
               /\ (s_limit > 0 /\ r = s_limit) => s_off = MatchSeq[s_limit]
               /\ s_limit = 0 => (s_calls = <<>> /\ s_off = 0 /\ s_total = 0)

C7_Witness ==
    /\ s_pc = "returned"
    /\ ~s_uaf
    /\ s_limit > 0
    /\ Cardinality(MatchOffsets) > s_limit
    /\ s_ret = s_limit
    /\ s_base = 64

-----------------------------------------------------------------------------
(* Properties of GetInstructionContaningAddress, checked under SpecDecode *)

(* C10: every iteration of the decode loop that neither returns nor stops  *)
(* on a decode failure strictly advances the position, so the loop ends.   *)
C10_DecodeAdvances ==
    d_pc = "loop" => d_i > d_prev

=============================================================================
